---- MODULE Spec2Model ----
(***************************************************************************)
(* Model of ConnListModel (src/ui/model/connlistmodel.cpp): the windowed   *)
(* projection of the connection log onto table rows.                       *)
(*                                                                         *)
(* The model object stores the identifier window [m_connIdMin,             *)
(* m_connIdMax], a single reusable row slot m_connRow and the row-cache    *)
(* tag kept by its base class.  updateConnIdRange() re-reads the window    *)
(* from storage and turns the change into reset / rowsRemoved /            *)
(* rowsInserted notifications; connRowAt() decodes one row on demand.      *)
(*                                                                         *)
(* The base class (reset, refresh, invalidateRowCache, updateRowCache,     *)
(* rowCount, isNull) is not part of the reviewed file; those operators     *)
(* follow the design document and are marked as such where defined.        *)
(***************************************************************************)
EXTENDS Integers, Sequences, FiniteSets, TLC

\* Largest connection identifier the storage hands out in a run.
MaxId == 4

Ids == 1..MaxId

\* Windows getConnIdRange can report: (0,0) for the empty log, otherwise
\* the smallest and largest stored identifier.
Ranges == {<<0, 0>>} \cup {r \in Ids \X Ids : r[1] <= r[2]}

\* Row arguments a caller can pass, in range or not.
RowIndexes == (0 - 1)..MaxId

VARIABLES
    m_connIdMin,    \* stored lower bound of the window
    m_connIdMax,    \* stored upper bound of the window (0: empty log)
    m_connRow,      \* the single decoded-row slot
    tableRow,       \* row-cache tag of the slot
    conn,           \* identifiers whose record "conn JOIN app" exists
    trace,          \* events of the last operation, in emission order
    last,           \* the last operation and its arguments
    fetched,        \* identifiers queried from storage by the last operation
    ret,            \* row handed back by the last connRowAt
    view            \* identifiers a consumer holds, kept from notifications

vars == <<m_connIdMin, m_connIdMax, m_connRow, tableRow, conn,
          trace, last, fetched, ret, view>>

----------------------------------------------------------------------------
(* Storage: the rows of "conn t JOIN app a" as the statement sees them.    *)

NullCol == [null |-> TRUE, v |-> 0]

Col(x) == [null |-> FALSE, v |-> x]

\* A record is IPv6 when its identifier is even: its local_ip / remote_ip
\* columns are then NULL and the *_ip6 blobs are set.
RecIsV6(id) == id % 2 = 0

ConnRecord(id) ==
    [conn_id    |-> id,
     app_id     |-> 1 + (id % 3),
     local_ip   |-> IF RecIsV6(id) THEN NullCol ELSE Col(100 + id),
     remote_ip  |-> IF RecIsV6(id) THEN NullCol ELSE Col(200 + id),
     local_ip6  |-> IF RecIsV6(id) THEN Col(600 + id) ELSE NullCol,
     remote_ip6 |-> IF RecIsV6(id) THEN Col(700 + id) ELSE NullCol,
     path       |-> 1 + (id % 3)]

sqlBase(ids) == {ConnRecord(id) : id \in ids}

\* Variant: the statement selects by ">=" instead of "=".
sqlWhere_Ge(t, p1) == t.conn_id >= p1

sqlWhere(t, p1) == t.conn_id = p1

\* DbQuery(...).sql(sql()).vars({connId}).prepareRow(stmt): the rows that
\* satisfy the statement; the statement is positioned on the first one.
sqlRows(ids, connId) == {t \in sqlBase(ids) : sqlWhere(t, connId)}

stmtRow(rows) == CHOOSE t \in rows : \A u \in rows : t.conn_id <= u.conn_id

columnInt(c) == IF c.null THEN 0 ELSE c.v

columnIsNull(c) == c.null

----------------------------------------------------------------------------
(* The row slot and its cache tag.                                         *)

InitConnRow ==
    [connId |-> 0, appId |-> 0, isIPv6 |-> FALSE,
     localIp |-> [fam |-> "v4", v |-> 0],
     remoteIp |-> [fam |-> "v4", v |-> 0],
     appPath |-> 0]

EmptyTableRow == [valid |-> FALSE, row |-> 0 - 1, id |-> 0, null |-> TRUE]

ValidTableRow(row, id, null) == [valid |-> TRUE, row |-> row, id |-> id, null |-> null]

connIdMin(s) == s.m_connIdMin

connIdMax(s) == s.m_connIdMax

doSqlCount(idMin, idMax) == IF idMax <= 0 THEN 0 ELSE (idMax - idMin) + 1

rowCount(s) == doSqlCount(connIdMin(s), connIdMax(s))

identifierForRow(s, row) == connIdMin(s) + row

----------------------------------------------------------------------------
(* Events.  Each event records the window and the cache tag at the moment  *)
(* it is emitted.                                                          *)

Event(s, type, first, lastRow) ==
    [type |-> type, first |-> first, last |-> lastRow,
     idMin |-> s.m_connIdMin, idMax |-> s.m_connIdMax,
     cached |-> s.tableRow.valid]

Emit(s, type, first, lastRow) ==
    [s EXCEPT !.trace = Append(@, Event(s, type, first, lastRow))]

beginRemoveRows(s, first, lastRow) == Emit(s, "rowsAboutToBeRemoved", first, lastRow)

endRemoveRows(s, first, lastRow) == Emit(s, "rowsRemoved", first, lastRow)

beginInsertRows(s, first, lastRow) == Emit(s, "rowsAboutToBeInserted", first, lastRow)

endInsertRows(s, first, lastRow) == Emit(s, "rowsInserted", first, lastRow)

invalidateRowCache(s) == [s EXCEPT !.tableRow = EmptyTableRow]

reset(s) == Emit(invalidateRowCache(s), "modelReset", 0, 0)

refresh(s) == Emit(invalidateRowCache(s), "dataChanged", 0, 0)

\* hostInfoCache()->clear(): the host-name cache is an external object; the
\* call is recorded as an event.
hostInfoCacheClear(s) == Emit(s, "hostInfoCacheClear", 0, 0)

----------------------------------------------------------------------------
(* Range tracking.                                                         *)

resetConnRows(s, idMin, idMax) ==
    reset([s EXCEPT !.m_connIdMin = idMin, !.m_connIdMax = idMax])

\* Variant: the removed range is announced one row too long.
removeConnRows_LastOff(s, idMin, count) ==
    LET s1 == beginRemoveRows(s, 0, count)
        s2 == [s1 EXCEPT !.m_connIdMin = idMin]
        s3 == invalidateRowCache(s2)
    IN  endRemoveRows(s3, 0, count)

\* Variant: the row cache survives the removal.
removeConnRows_NoInvalidate(s, idMin, count) ==
    LET s1 == beginRemoveRows(s, 0, count - 1)
        s2 == [s1 EXCEPT !.m_connIdMin = idMin]
    IN  endRemoveRows(s2, 0, count - 1)

\* Variant: the removal is announced but the lower bound is not stored.
removeConnRows_KeepMin(s, idMin, count) ==
    LET s1 == beginRemoveRows(s, 0, count - 1)
        s3 == invalidateRowCache(s1)
    IN  endRemoveRows(s3, 0, count - 1)

\* Variant: the row cache is dropped only after the removal is announced.
removeConnRows_InvalidateLate(s, idMin, count) ==
    LET s1 == beginRemoveRows(s, 0, count - 1)
        s2 == [s1 EXCEPT !.m_connIdMin = idMin]
        s3 == endRemoveRows(s2, 0, count - 1)
    IN  invalidateRowCache(s3)

removeConnRows(s, idMin, count) ==
    LET s1 == beginRemoveRows(s, 0, count - 1)
        s2 == [s1 EXCEPT !.m_connIdMin = idMin]
        s3 == invalidateRowCache(s2)
    IN  endRemoveRows(s3, 0, count - 1)

\* Variant: the inserted range is announced one row too long.
insertConnRows_LastOff(s, idMax, endRow, count) ==
    LET s1 == beginInsertRows(s, endRow, endRow + count)
        s2 == [s1 EXCEPT !.m_connIdMax = idMax]
        s3 == invalidateRowCache(s2)
    IN  endInsertRows(s3, endRow, endRow + count)

\* Variant: the insertion is announced but the upper bound is not stored.
insertConnRows_KeepMax(s, idMax, endRow, count) ==
    LET s1 == beginInsertRows(s, endRow, endRow + count - 1)
        s3 == invalidateRowCache(s1)
    IN  endInsertRows(s3, endRow, endRow + count - 1)

insertConnRows(s, idMax, endRow, count) ==
    LET s1 == beginInsertRows(s, endRow, endRow + count - 1)
        s2 == [s1 EXCEPT !.m_connIdMax = idMax]
        s3 == invalidateRowCache(s2)
    IN  endInsertRows(s3, endRow, endRow + count - 1)

\* Variant: a minimum equal to the old maximum still counts as inside.
isIdMinOut_Strict(oldIdMin, oldIdMax, idMin) == idMin < oldIdMin \/ idMin > oldIdMax

\* Variant: the upper test of the minimum is missing.
isIdMinOut_NoUpper(oldIdMin, oldIdMax, idMin) == idMin < oldIdMin

isIdMinOut(oldIdMin, oldIdMax, idMin) == idMin < oldIdMin \/ idMin >= oldIdMax

isIdMaxOut(oldIdMax, idMax) == idMax < oldIdMax \/ oldIdMax = 0

\* Variant: the reset branch does not return.
updateConnRows_NoReturn(s, oldIdMin, oldIdMax, idMin, idMax) ==
    LET s0 == IF isIdMinOut(oldIdMin, oldIdMax, idMin) \/ isIdMaxOut(oldIdMax, idMax)
              THEN resetConnRows(s, idMin, idMax)
              ELSE s
        removedCount == idMin - oldIdMin
        s1 == IF removedCount > 0
              THEN removeConnRows(s0, idMin, removedCount)
              ELSE s0
        addedCount == idMax - oldIdMax
        endRow == oldIdMax - idMin + 1
    IN  IF addedCount > 0
        THEN insertConnRows(s1, idMax, endRow, addedCount)
        ELSE s1

\* Variant: the insert position is taken from the old minimum.
updateConnRows_EndRowOldMin(s, oldIdMin, oldIdMax, idMin, idMax) ==
    IF isIdMinOut(oldIdMin, oldIdMax, idMin) \/ isIdMaxOut(oldIdMax, idMax)
    THEN resetConnRows(s, idMin, idMax)
    ELSE LET removedCount == idMin - oldIdMin
             s1 == IF removedCount > 0
                   THEN removeConnRows(s, idMin, removedCount)
                   ELSE s
             addedCount == idMax - oldIdMax
             endRow == oldIdMax - oldIdMin + 1
         IN  IF addedCount > 0
             THEN insertConnRows(s1, idMax, endRow, addedCount)
             ELSE s1

\* Variant: rows are inserted only when none was removed.
updateConnRows_ElseIf(s, oldIdMin, oldIdMax, idMin, idMax) ==
    IF isIdMinOut(oldIdMin, oldIdMax, idMin) \/ isIdMaxOut(oldIdMax, idMax)
    THEN resetConnRows(s, idMin, idMax)
    ELSE LET removedCount == idMin - oldIdMin
             addedCount == idMax - oldIdMax
             endRow == oldIdMax - idMin + 1
         IN  IF removedCount > 0
             THEN removeConnRows(s, idMin, removedCount)
             ELSE IF addedCount > 0
                  THEN insertConnRows(s, idMax, endRow, addedCount)
                  ELSE s

updateConnRows(s, oldIdMin, oldIdMax, idMin, idMax) ==
    IF isIdMinOut(oldIdMin, oldIdMax, idMin) \/ isIdMaxOut(oldIdMax, idMax)
    THEN resetConnRows(s, idMin, idMax)
    ELSE LET removedCount == idMin - oldIdMin
             s1 == IF removedCount > 0
                   THEN removeConnRows(s, idMin, removedCount)
                   ELSE s
             addedCount == idMax - oldIdMax
             endRow == oldIdMax - idMin + 1
         IN  IF addedCount > 0
             THEN insertConnRows(s1, idMax, endRow, addedCount)
             ELSE s1

\* Variant: an unchanged window is not filtered out.
updateConnIdRange_NoEarlyReturn(s, idMin, idMax) ==
    updateConnRows(IF idMax = 0 THEN hostInfoCacheClear(s) ELSE s,
                   connIdMin(s), connIdMax(s), idMin, idMax)

\* Variant: the host-name cache is cleared after the rows were updated.
updateConnIdRange_ClearLate(s, idMin, idMax) ==
    LET oldIdMin == connIdMin(s)
        oldIdMax == connIdMax(s)
        s1 == updateConnRows(s, oldIdMin, oldIdMax, idMin, idMax)
    IN  IF idMin = oldIdMin /\ idMax = oldIdMax
        THEN s
        ELSE IF idMax = 0 THEN hostInfoCacheClear(s1) ELSE s1

updateConnIdRange(s, idMin, idMax) ==
    LET oldIdMin == connIdMin(s)
        oldIdMax == connIdMax(s)
    IN  IF idMin = oldIdMin /\ idMax = oldIdMax
        THEN s
        ELSE updateConnRows(IF idMax = 0 THEN hostInfoCacheClear(s) ELSE s,
                            oldIdMin, oldIdMax, idMin, idMax)

----------------------------------------------------------------------------
(* Row decoding.                                                           *)

\* Variant: the remote address is always read from the 32-bit column.
updateTableRow_RemoteV4(s, ids, row) ==
    LET connId == connIdMin(s) + row
        rows == sqlRows(ids, connId)
        stmt == stmtRow(rows)
        isIPv6 == columnIsNull(stmt.local_ip)
    IN  IF rows = {}
        THEN [ok |-> FALSE, row |-> s.m_connRow, connId |-> connId]
        ELSE [ok |-> TRUE,
              row |-> [connId |-> stmt.conn_id,
                       appId |-> stmt.app_id,
                       isIPv6 |-> isIPv6,
                       localIp |-> IF ~isIPv6
                                   THEN [fam |-> "v4", v |-> columnInt(stmt.local_ip)]
                                   ELSE [fam |-> "v6", v |-> columnInt(stmt.local_ip6)],
                       remoteIp |-> [fam |-> "v4", v |-> columnInt(stmt.remote_ip)],
                       appPath |-> stmt.path],
              connId |-> connId]

\* Result: ok (the bool returned), row (m_connRow afterwards) and the
\* identifier that was queried.
updateTableRow(s, ids, row) ==
    LET connId == connIdMin(s) + row
        rows == sqlRows(ids, connId)
        stmt == stmtRow(rows)
        isIPv6 == columnIsNull(stmt.local_ip)
    IN  IF rows = {}
        THEN [ok |-> FALSE, row |-> s.m_connRow, connId |-> connId]
        ELSE [ok |-> TRUE,
              row |-> [connId |-> stmt.conn_id,
                       appId |-> stmt.app_id,
                       isIPv6 |-> isIPv6,
                       localIp |-> IF ~isIPv6
                                   THEN [fam |-> "v4", v |-> columnInt(stmt.local_ip)]
                                   ELSE [fam |-> "v6", v |-> columnInt(stmt.local_ip6)],
                       remoteIp |-> IF ~isIPv6
                                    THEN [fam |-> "v4", v |-> columnInt(stmt.remote_ip)]
                                    ELSE [fam |-> "v6", v |-> columnInt(stmt.remote_ip6)],
                       appPath |-> stmt.path],
              connId |-> connId]

\* The slot is reused when its tag names this row and this identifier;
\* otherwise the row is fetched once and the outcome, decoded or absent,
\* is tagged.  Result: the new state and the identifiers fetched.
updateRowCache(s, ids, row) ==
    IF s.tableRow.valid /\ s.tableRow.row = row
       /\ s.tableRow.id = identifierForRow(s, row)
    THEN [s |-> s, fetched |-> <<>>]
    ELSE LET r == updateTableRow(s, ids, row)
         IN  [s |-> [s EXCEPT !.m_connRow = r.row,
                              !.tableRow = ValidTableRow(row, r.connId, ~r.ok)],
              fetched |-> <<r.connId>>]

isNull(s) == (~s.tableRow.valid) \/ s.tableRow.null

\* connRowAt returns a reference to m_connRow; null-ness is the tag's.
connRowAt(s, ids, row) ==
    LET u == updateRowCache(s, ids, row)
    IN  [s |-> u.s, fetched |-> u.fetched,
         ret |-> [isNull |-> isNull(u.s), row |-> u.s.m_connRow]]

----------------------------------------------------------------------------
(* A consumer that keeps the list of identifiers it shows and changes it   *)
(* only on notifications, reading rowCount() and the row-to-identifier     *)
(* mapping at the moment the notification arrives.                         *)

Min2(a, b) == IF a <= b THEN a ELSE b

Max2(a, b) == IF a >= b THEN a ELSE b

ViewReload(e) ==
    [i \in 1..doSqlCount(e.idMin, e.idMax) |-> e.idMin + (i - 1)]

ViewRemove(list, first, lastRow) ==
    [i \in 1..Min2(first, Len(list)) |-> list[i]]
        \o [i \in 1..Max2(0, Len(list) - (lastRow + 1)) |-> list[i + lastRow + 1]]

ViewInsert(list, e) ==
    [i \in 1..Min2(e.first, Len(list)) |-> list[i]]
        \o [i \in 1..(e.last - e.first + 1) |-> e.idMin + e.first + (i - 1)]
        \o [i \in 1..Max2(0, Len(list) - e.first) |-> list[i + e.first]]

ViewApply(list, e) ==
    IF e.type = "modelReset" THEN ViewReload(e)
    ELSE IF e.type = "rowsRemoved" THEN ViewRemove(list, e.first, e.last)
    ELSE IF e.type = "rowsInserted" THEN ViewInsert(list, e)
    ELSE list

RECURSIVE ViewApplyAll(_, _)
ViewApplyAll(list, events) ==
    IF events = <<>> THEN list
    ELSE ViewApplyAll(ViewApply(list, Head(events)), Tail(events))

----------------------------------------------------------------------------
(* The state machine.                                                      *)

State ==
    [m_connIdMin |-> m_connIdMin, m_connIdMax |-> m_connIdMax,
     m_connRow |-> m_connRow, tableRow |-> tableRow, trace |-> <<>>]

NoRet == [isNull |-> TRUE, row |-> InitConnRow]

Op(op, idMin, idMax, row) ==
    [op |-> op, oldIdMin |-> m_connIdMin, oldIdMax |-> m_connIdMax,
     idMin |-> idMin, idMax |-> idMax, row |-> row]

Store(s) ==
    /\ m_connIdMin' = s.m_connIdMin
    /\ m_connIdMax' = s.m_connIdMax
    /\ m_connRow' = s.m_connRow
    /\ tableRow' = s.tableRow
    /\ trace' = s.trace
    /\ view' = ViewApplyAll(view, s.trace)

Init ==
    /\ m_connIdMin = 0
    /\ m_connIdMax = 0
    /\ m_connRow = InitConnRow
    /\ tableRow = EmptyTableRow
    /\ conn = {}
    /\ trace = <<>>
    /\ last = [op |-> "init", oldIdMin |-> 0, oldIdMax |-> 0,
               idMin |-> 0, idMax |-> 0, row |-> 0 - 1]
    /\ fetched = <<>>
    /\ ret = NoRet
    /\ view = <<>>

\* connChanged (or initialize): the window is re-read from storage.
UpdateConnIdRange ==
    \E r \in Ranges :
        /\ Store(updateConnIdRange(State, r[1], r[2]))
        /\ last' = Op("updateConnIdRange", r[1], r[2], 0 - 1)
        /\ fetched' = <<>>
        /\ ret' = NoRet
        /\ UNCHANGED conn

ReadRow(row) ==
    LET c == connRowAt(State, conn, row)
    IN  /\ Store(c.s)
        /\ last' = Op("connRowAt", m_connIdMin, m_connIdMax, row)
        /\ fetched' = c.fetched
        /\ ret' = c.ret
        /\ UNCHANGED conn

\* A view reads a row it was told exists.
ConnRowAt ==
    \E row \in 0..(doSqlCount(m_connIdMin, m_connIdMax) - 1) : ReadRow(row)

\* A caller passes a row index that is not in [0, rowCount()).
ConnRowAtOutside ==
    \E row \in RowIndexes :
        /\ ~(0 <= row /\ row < doSqlCount(m_connIdMin, m_connIdMax))
        /\ ReadRow(row)

\* AppInfoCache / HostInfoCache cacheChanged -> refresh().
CacheChanged ==
    /\ Store(refresh(State))
    /\ last' = Op("refresh", m_connIdMin, m_connIdMax, 0 - 1)
    /\ fetched' = <<>>
    /\ ret' = NoRet
    /\ UNCHANGED conn

\* Storage gains or loses the joined record of one identifier.
DbChange ==
    \E id \in Ids :
        /\ conn' = IF id \in conn THEN conn \ {id} ELSE conn \cup {id}
        /\ last' = Op("dbChange", m_connIdMin, m_connIdMax, 0 - 1)
        /\ trace' = <<>>
        /\ fetched' = <<>>
        /\ ret' = NoRet
        /\ UNCHANGED <<m_connIdMin, m_connIdMax, m_connRow, tableRow, view>>

Next == UpdateConnIdRange \/ ConnRowAt \/ CacheChanged \/ DbChange

Spec == Init /\ [][Next]_vars

\* The same machine with callers that do not respect rowCount().
NextAnyRow == UpdateConnIdRange \/ ConnRowAt \/ ConnRowAtOutside \/ CacheChanged \/ DbChange

SpecAnyRow == Init /\ [][NextAnyRow]_vars

----------------------------------------------------------------------------
(* Vocabulary of the properties.                                           *)

Structural(e) == e.type \in {"modelReset", "rowsRemoved", "rowsInserted"}

\* The structural-change notifications of the last operation.
Notes == SelectSeq(trace, Structural)

NoteSeq == [i \in 1..Len(Notes) |-> <<Notes[i].type, Notes[i].first, Notes[i].last>>]

NoteTypes == [i \in 1..Len(Notes) |-> Notes[i].type]

IsUpdate == last.op = "updateConnIdRange"

IsRead == last.op = "connRowAt"

OldCount == doSqlCount(last.oldIdMin, last.oldIdMax)

NewCount == doSqlCount(m_connIdMin, m_connIdMax)

OldWindow == [m_connIdMin |-> last.oldIdMin, m_connIdMax |-> last.oldIdMax]

NewWindow == [m_connIdMin |-> m_connIdMin, m_connIdMax |-> m_connIdMax]

PureGrowCase ==
    /\ IsUpdate
    /\ last.oldIdMax > 0
    /\ last.idMin = last.oldIdMin
    /\ last.idMax > last.oldIdMax

GrowOutcome ==
    /\ NoteSeq = << <<"rowsInserted", last.oldIdMax - last.idMin + 1,
                      last.oldIdMax - last.idMin + (last.idMax - last.oldIdMax)>> >>
    /\ m_connIdMax = last.idMax
    /\ NewCount = OldCount + (last.idMax - last.oldIdMax)

\* C1 as stated: a window that keeps its minimum and raises its maximum by
\* k > 0 yields exactly one rowsInserted(oldIdMax - newIdMin + 1, k), no
\* reset, and rowCount grows by k -- for every old window with oldIdMax > 0,
\* a one-row window included.
C1_PureGrowAnyWindow == PureGrowCase => GrowOutcome

\* C1 amended: the same, for old windows of at least two rows
\* (oldIdMin < oldIdMax); a one-row window is reset instead, and its
\* rowCount still grows by k.
C1_PureGrow ==
    PureGrowCase =>
        IF last.oldIdMin < last.oldIdMax
        THEN GrowOutcome
        ELSE /\ NoteTypes = <<"modelReset">>
             /\ NewCount = OldCount + (last.idMax - last.oldIdMax)

C1_Witness ==
    /\ PureGrowCase
    /\ last.oldIdMin = 1 /\ last.oldIdMax = 2 /\ last.idMax = 4
    /\ NoteSeq = << <<"rowsInserted", 2, 3>> >>
    /\ NewCount = 4

PureTrimCase ==
    /\ IsUpdate
    /\ last.idMax = last.oldIdMax
    /\ last.idMin - last.oldIdMin > 0
    /\ last.idMin - last.oldIdMin < last.oldIdMax - last.oldIdMin

\* C2: a window that keeps its maximum and raises its minimum by k,
\* 0 < k < oldIdMax - oldIdMin, yields exactly one rowsRemoved for rows
\* [0, k-1], no reset, rowCount drops by k and row 0 maps to newIdMin.
C2_PureTrim ==
    PureTrimCase =>
        /\ NoteSeq = << <<"rowsRemoved", 0, (last.idMin - last.oldIdMin) - 1>> >>
        /\ NewCount = OldCount - (last.idMin - last.oldIdMin)
        /\ identifierForRow(NewWindow, 0) = last.idMin

C2_Witness ==
    /\ PureTrimCase
    /\ last.oldIdMin = 1 /\ last.oldIdMax = 4 /\ last.idMin = 3
    /\ NoteSeq = << <<"rowsRemoved", 0, 1>> >>
    /\ NewCount = 2
    /\ m_connIdMin = 3

ResetCase ==
    /\ <<last.idMin, last.idMax>> # <<last.oldIdMin, last.oldIdMax>>
    /\ \/ last.idMin < last.oldIdMin
       \/ last.idMin >= last.oldIdMax
       \/ last.idMax < last.oldIdMax
       \/ last.oldIdMax = 0

\* C3: an observed window that differs from the stored one and has its
\* minimum outside [oldIdMin, oldIdMax), or its maximum below the old
\* maximum, or follows an empty window, yields exactly one reset and no
\* rowsRemoved / rowsInserted, and the stored window becomes the observed
\* one; no reset is emitted in any other case.
C3_ResetRule ==
    IsUpdate =>
        /\ ResetCase =>
              /\ NoteTypes = <<"modelReset">>
              /\ m_connIdMin = last.idMin
              /\ m_connIdMax = last.idMax
        /\ (\E i \in 1..Len(Notes) : Notes[i].type = "modelReset") => ResetCase

C3_Witness ==
    /\ IsUpdate
    /\ last.oldIdMin = 1 /\ last.oldIdMax = 2
    /\ last.idMin = 3 /\ last.idMax = 4
    /\ NoteTypes = <<"modelReset">>
    /\ m_connIdMin = 3 /\ m_connIdMax = 4

\* C4 as stated: one call of updateConnIdRange never emits more than one
\* structural-change notification.
C4_AtMostOneNotification == IsUpdate => Len(Notes) <= 1

\* C4 amended: one call emits nothing, or one reset, or one rowsRemoved,
\* or one rowsInserted, or one rowsRemoved followed by one rowsInserted
\* (the window both trimmed and grew); it emits nothing only when the
\* observed window equals the stored one.
C4_OneNotificationPerEdit ==
    IsUpdate =>
        /\ NoteTypes \in {<<>>, <<"modelReset">>, <<"rowsRemoved">>,
                          <<"rowsInserted">>, <<"rowsRemoved", "rowsInserted">>}
        /\ NoteTypes = <<>> =>
              <<last.idMin, last.idMax>> = <<last.oldIdMin, last.oldIdMax>>

C4_Witness ==
    /\ IsUpdate
    /\ last.oldIdMin = 1 /\ last.oldIdMax = 3
    /\ last.idMin = 2 /\ last.idMax = 4
    /\ NoteSeq = << <<"rowsRemoved", 0, 0>>, <<"rowsInserted", 2, 2>> >>

\* C5: observing a window equal to the stored one changes neither the
\* window, nor the row slot and its cache tag, emits nothing and does not
\* clear the host-name cache, however often it is repeated.
C5_NoChangeNoOp ==
    [][(/\ last'.op = "updateConnIdRange"
        /\ last'.idMin = m_connIdMin
        /\ last'.idMax = m_connIdMax)
       => (/\ m_connIdMin' = m_connIdMin
           /\ m_connIdMax' = m_connIdMax
           /\ m_connRow' = m_connRow
           /\ tableRow' = tableRow
           /\ trace' = <<>>)]_vars

C5_Witness ==
    /\ IsUpdate
    /\ last.idMin = last.oldIdMin /\ last.idMax = last.oldIdMax
    /\ last.idMin = 2 /\ last.idMax = 2
    /\ tableRow.valid /\ ~tableRow.null
    /\ trace = <<>>

AbsentCase == IsRead /\ fetched # <<>> /\ fetched[1] \notin conn

\* C7: a read whose fetch finds no record returns the null row, carrying
\* no field of a previously decoded row, and tags the slot with that
\* outcome; a read issues at most one fetch.
C7_AbsentRowIsNull ==
    /\ IsRead => Len(fetched) <= 1
    /\ AbsentCase =>
          /\ ret.isNull
          /\ ret.row = InitConnRow
          /\ tableRow = ValidTableRow(last.row, fetched[1], TRUE)

\* Auxiliary to C7: a read of the row the tag names issues no fetch, the
\* absent outcome included.
AbsentResultCached ==
    [][(/\ last'.op = "connRowAt"
        /\ tableRow.valid
        /\ tableRow.row = last'.row
        /\ tableRow.id = m_connIdMin + last'.row)
       => (fetched' = <<>> /\ ret'.isNull = tableRow.null)]_vars

\* C8: a read of row i with 0 <= i < rowCount queries the identifier
\* m_connIdMin + i, which lies in [m_connIdMin, m_connIdMax]; a read of a
\* row outside [0, rowCount) queries nothing.
C8_RowGuard ==
    IsRead =>
        IF 0 <= last.row /\ last.row < rowCount(NewWindow)
        THEN /\ identifierForRow(NewWindow, last.row) \in m_connIdMin..m_connIdMax
             /\ \A i \in 1..Len(fetched) :
                    fetched[i] = identifierForRow(NewWindow, last.row)
        ELSE fetched = <<>>

\* C9: across a grow every row that existed keeps its identifier; across a
\* trim of k rows the removed rows are [0, k-1] and the identifier that was
\* at row i + k is at row i.
C9_RowStability ==
    IsUpdate =>
        /\ NoteTypes = <<"rowsInserted">> =>
              \A i \in 0..(OldCount - 1) :
                  identifierForRow(NewWindow, i) = identifierForRow(OldWindow, i)
        /\ \A n \in 1..Len(Notes) :
              Notes[n].type = "rowsRemoved" =>
                  /\ Notes[n].first = 0
                  /\ \A i \in 0..(OldCount - (Notes[n].last + 1) - 1) :
                         identifierForRow(NewWindow, i)
                             = identifierForRow(OldWindow, i + Notes[n].last + 1)

C9_Witness ==
    /\ IsUpdate
    /\ last.oldIdMin = 1 /\ last.oldIdMax = 4
    /\ last.idMin = 2 /\ last.idMax = 4
    /\ NoteSeq = << <<"rowsRemoved", 0, 0>> >>
    /\ identifierForRow(NewWindow, 2) = 4

\* C10: a read of row i, 0 <= i < rowCount, that returns a decoded row
\* returns one whose connId is m_connIdMin + i.
C10_DecodeRoundTrip ==
    (IsRead /\ 0 <= last.row /\ last.row < rowCount(NewWindow) /\ ~ret.isNull)
        => ret.row.connId = identifierForRow(NewWindow, last.row)

C10_Witness ==
    /\ IsRead
    /\ m_connIdMin = 2 /\ last.row = 2
    /\ ~ret.isNull
    /\ ret.row.connId = 4
    /\ m_connRow.connId = 4

TraceTypes == [i \in 1..Len(trace) |-> trace[i].type]

CombinedCase ==
    /\ IsUpdate
    /\ ~ResetCase
    /\ last.idMin > last.oldIdMin
    /\ last.idMax > last.oldIdMax

\* C11: when the observed window raises both bounds without a reset, the
\* removal is announced and completed before the insertion starts; between
\* the two the stored window is (newIdMin, oldIdMax), and the insert
\* position oldIdMax - newIdMin + 1 equals the row count of that window, so
\* the new rows directly follow the last existing row.
C11_TrimThenGrow ==
    CombinedCase =>
        /\ TraceTypes = <<"rowsAboutToBeRemoved", "rowsRemoved",
                          "rowsAboutToBeInserted", "rowsInserted">>
        /\ trace[2].first = 0
        /\ trace[2].last = (last.idMin - last.oldIdMin) - 1
        /\ trace[2].idMin = last.idMin /\ trace[2].idMax = last.oldIdMax
        /\ trace[3].idMin = last.idMin /\ trace[3].idMax = last.oldIdMax
        /\ trace[3].first = last.oldIdMax - last.idMin + 1
        /\ trace[3].first = doSqlCount(trace[3].idMin, trace[3].idMax)
        /\ trace[4].first = trace[3].first
        /\ trace[4].last = trace[3].first + (last.idMax - last.oldIdMax) - 1
        /\ trace[4].idMin = last.idMin /\ trace[4].idMax = last.idMax

C11_Witness ==
    /\ CombinedCase
    /\ last.oldIdMin = 1 /\ last.oldIdMax = 3
    /\ last.idMin = 2 /\ last.idMax = 4
    /\ Len(trace) = 4
    /\ trace[3].type = "rowsAboutToBeInserted"
    /\ trace[3].idMin = 2 /\ trace[3].idMax = 3 /\ trace[3].first = 2

EditEvent(e) ==
    e.type \in {"modelReset", "rowsAboutToBeRemoved", "rowsRemoved",
                "rowsAboutToBeInserted", "rowsInserted"}

BoundUpdated(e) ==
    /\ e.type \in {"modelReset", "rowsAboutToBeRemoved", "rowsRemoved"}
          => e.idMin = last.idMin
    /\ e.type \in {"modelReset", "rowsAboutToBeInserted", "rowsInserted"}
          => e.idMax = last.idMax

\* C12 as stated: at the moment any notification of a structural edit is
\* emitted, the rowsAboutToBe... ones included, the row cache is already
\* empty and the bound the edit changes is already stored.
C12_InvalidateBeforeAnyNotification ==
    IsUpdate =>
        \A i \in 1..Len(trace) :
            EditEvent(trace[i]) => (~trace[i].cached /\ BoundUpdated(trace[i]))

\* C12 amended: at the moment a reset, rowsRemoved or rowsInserted
\* notification is emitted the row cache is empty and the bound the edit
\* changes is stored; the rowsAboutToBeRemoved / rowsAboutToBeInserted
\* notification that opens the edit is emitted before both, under the
\* window stored when the edit began.
C12_InvalidateBeforeCompletion ==
    IsUpdate =>
        \A i \in 1..Len(trace) :
            /\ Structural(trace[i]) => (~trace[i].cached /\ BoundUpdated(trace[i]))
            /\ trace[i].type = "rowsAboutToBeRemoved" =>
                  /\ trace[i].idMin = last.oldIdMin
                  /\ trace[i].idMax = last.oldIdMax
                  /\ trace[i + 1].type = "rowsRemoved"
            /\ trace[i].type = "rowsAboutToBeInserted" =>
                  /\ trace[i].idMin = last.idMin
                  /\ trace[i].idMax = last.oldIdMax
                  /\ ~trace[i].cached \/ i = 1
                  /\ trace[i + 1].type = "rowsInserted"

C12_Witness ==
    /\ IsUpdate
    /\ last.oldIdMin = 1 /\ last.oldIdMax = 3 /\ last.idMin = 2 /\ last.idMax = 3
    /\ TraceTypes = <<"rowsAboutToBeRemoved", "rowsRemoved">>
    /\ trace[1].cached /\ trace[1].idMin = 1
    /\ ~trace[2].cached /\ trace[2].idMin = 2

\* C13: every observation ends with the stored window equal to the
\* observed one, both bounds, and rowCount equal to
\* (idMax <= 0 ? 0 : idMax - idMin + 1) of the observed window.
C13_Converges ==
    IsUpdate =>
        /\ m_connIdMin = last.idMin
        /\ m_connIdMax = last.idMax
        /\ rowCount(NewWindow)
              = (IF last.idMax <= 0 THEN 0 ELSE last.idMax - last.idMin + 1)

C13_Witness ==
    /\ CombinedCase
    /\ last.oldIdMin = 1 /\ last.oldIdMax = 3
    /\ m_connIdMin = 2 /\ m_connIdMax = 4
    /\ rowCount(NewWindow) = 3

\* C14: a consumer that changes its list of identifiers only as the
\* notifications say (reset: reload; rowsRemoved: delete those positions;
\* rowsInserted: insert the identifiers of those positions) holds, after
\* every sequence of observations, exactly m_connIdMin .. m_connIdMax, with
\* length rowCount.
C14_ViewFollowsWindow ==
    /\ Len(view) = rowCount(NewWindow)
    /\ \A i \in 1..Len(view) : view[i] = identifierForRow(NewWindow, i - 1)
    /\ Len(view) > 0 => (view[1] = m_connIdMin /\ view[Len(view)] = m_connIdMax)

C14_Witness ==
    /\ CombinedCase
    /\ NoteTypes = <<"rowsRemoved", "rowsInserted">>
    /\ last.oldIdMin = 1 /\ last.oldIdMax = 3
    /\ view = <<2, 3, 4>>

DecodedCase == IsRead /\ ~ret.isNull

\* C15: in every decoded row both addresses are decoded under the one
\* discriminant read from the record (local_ip IS NULL): both from the
\* IPv6 columns when it says IPv6, both from the 32-bit columns otherwise,
\* and the row's isIPv6 flag is that discriminant.
C15_AddressFamily ==
    DecodedCase =>
        LET rec == ConnRecord(ret.row.connId)
            disc == columnIsNull(rec.local_ip)
        IN  /\ ret.row.isIPv6 = disc
            /\ ret.row.localIp.fam = ret.row.remoteIp.fam
            /\ ret.row.localIp.fam = (IF disc THEN "v6" ELSE "v4")
            /\ ret.row.localIp.v
                  = (IF disc THEN columnInt(rec.local_ip6) ELSE columnInt(rec.local_ip))
            /\ ret.row.remoteIp.v
                  = (IF disc THEN columnInt(rec.remote_ip6) ELSE columnInt(rec.remote_ip))

C15_Witness ==
    /\ DecodedCase
    /\ fetched = <<2>>
    /\ ret.row.isIPv6
    /\ ret.row.localIp = [fam |-> "v6", v |-> 602]
    /\ ret.row.remoteIp = [fam |-> "v6", v |-> 702]

\* C16: on the incremental path a removal names rows [0, k-1] with
\* 1 <= k <= rowCount - 1 of the window it is applied to, so it neither
\* empties the window nor names a missing row; an insertion starts at a
\* row not greater than rowCount at that moment; a window that had rows
\* becomes empty only by a reset.
C16_ValidRowRanges ==
    IsUpdate =>
        /\ \A i \in 1..Len(trace) :
              LET e == trace[i]
                  count == doSqlCount(e.idMin, e.idMax)
              IN  /\ e.type = "rowsAboutToBeRemoved" =>
                        /\ e.first = 0
                        /\ 1 <= e.last + 1
                        /\ e.last + 1 <= count - 1
                  /\ e.type = "rowsRemoved" => count >= 1
                  /\ e.type = "rowsAboutToBeInserted" =>
                        /\ 0 <= e.first
                        /\ e.first <= count
                        /\ e.first <= e.last
        /\ (OldCount > 0 /\ NewCount = 0) => NoteTypes = <<"modelReset">>

C16_Witness ==
    /\ IsUpdate
    /\ last.oldIdMin = 1 /\ last.oldIdMax = 4
    /\ last.idMin = 3 /\ last.idMax = 4
    /\ TraceTypes = <<"rowsAboutToBeRemoved", "rowsRemoved">>
    /\ trace[1].last = 1
    /\ doSqlCount(trace[1].idMin, trace[1].idMax) = 4
    /\ doSqlCount(trace[2].idMin, trace[2].idMax) = 2

HostCleared == \E i \in 1..Len(trace) : trace[i].type = "hostInfoCacheClear"

\* C17: an observation clears the host-name cache exactly when the
\* observed window differs from the stored one and its idMax is 0; the same
\* observation then applies a reset, emitted after the clear, and leaves
\* rowCount at 0.
C17_HostCacheClear ==
    IsUpdate =>
        /\ HostCleared <=>
              (/\ <<last.idMin, last.idMax>> # <<last.oldIdMin, last.oldIdMax>>
               /\ last.idMax = 0)
        /\ HostCleared =>
              /\ TraceTypes = <<"hostInfoCacheClear", "modelReset">>
              /\ rowCount(NewWindow) = 0

C17_Witness ==
    /\ IsUpdate
    /\ last.oldIdMin = 2 /\ last.oldIdMax = 3
    /\ last.idMax = 0
    /\ TraceTypes = <<"hostInfoCacheClear", "modelReset">>
    /\ m_connIdMax = 0

====
